---- MODULE Spec2Model ----
(***************************************************************************)
(* A model of src/main.py: the capability registry built by               *)
(* compute_tools_for_context (seven memoized introspection functions      *)
(* over a repository directory) and the conversation driver               *)
(* query_repo_for_information (the tool-calling loop).                    *)
(*                                                                         *)
(* Text is modelled at the level of characters: a Python str is a tuple   *)
(* of one-character strings, a pathlib path is the tuple of its parts,    *)
(* each part a str.  The filesystem holds a fixed directory tree and a    *)
(* set of files whose existence, readability and lines may change.        *)
(***************************************************************************)
EXTENDS Integers, Sequences, FiniteSets, TLC

(***************************************************************************)
(* Python str operations                                                   *)
(***************************************************************************)

\* str.lower() on one character (ASCII letters).
UpperToLower ==
    [A |-> "a", B |-> "b", C |-> "c", D |-> "d", E |-> "e", F |-> "f",
     G |-> "g", H |-> "h", I |-> "i", J |-> "j", K |-> "k", L |-> "l",
     M |-> "m", N |-> "n", O |-> "o", P |-> "p", Q |-> "q", R |-> "r",
     S |-> "s", T |-> "t", U |-> "u", V |-> "v", W |-> "w", X |-> "x",
     Y |-> "y", Z |-> "z"]

LowerChar(c) ==
    IF c \in DOMAIN UpperToLower THEN UpperToLower[c] ELSE c

\* str.lower()
Lower(s) ==
    [i \in 1..Len(s) |-> LowerChar(s[i])]

\* The 0-based offsets at which needle occurs in hay.
Occurrences(hay, needle) ==
    {i \in 0..(Len(hay) - Len(needle)) :
        SubSeq(hay, i + 1, i + Len(needle)) = needle}

\* needle in hay
StrIn(needle, hay) ==
    Occurrences(hay, needle) # {}

\* hay.index(needle): the lowest offset; -1 stands for ValueError.
StrIndex(hay, needle) ==
    IF Occurrences(hay, needle) = {} THEN -1
    ELSE CHOOSE i \in Occurrences(hay, needle) :
            \A j \in Occurrences(hay, needle) : i <= j

\* s.startswith(".")
StartsWithDot(s) ==
    Len(s) > 0 /\ s[1] = "."

(***************************************************************************)
(* pathlib: parsing a str into parts, joining, str(), is_relative_to       *)
(***************************************************************************)

RECURSIVE SplitSlash(_, _, _)
\* s.split("/"): cur is the segment being read, acc the segments read.
SplitSlash(s, cur, acc) ==
    IF s = <<>> THEN Append(acc, cur)
    ELSE IF Head(s) = "/" THEN SplitSlash(Tail(s), <<>>, Append(acc, cur))
    ELSE SplitSlash(Tail(s), Append(cur, Head(s)), acc)

\* PurePosixPath(s): empty and "." segments are dropped, ".." is kept; a
\* leading "/" makes the path absolute.
ParsePath(s) ==
    [abs   |-> Len(s) > 0 /\ s[1] = "/",
     parts |-> SelectSeq(SplitSlash(s, <<>>, <<>>),
                         LAMBDA seg : seg # <<>> /\ seg # <<".">>)]

\* local_path / file_path for an absolute local_path: an absolute right
\* operand replaces the left one, a relative one is appended part by part.
JoinPath(local, s) ==
    IF ParsePath(s).abs THEN ParsePath(s).parts
    ELSE local \o ParsePath(s).parts

\* PurePath.is_relative_to: a comparison of parts, nothing is normalised.
IsRelativeTo(path, other) ==
    /\ Len(other) <= Len(path)
    /\ SubSeq(path, 1, Len(other)) = other

RECURSIVE JoinSlash(_)
\* str() of a relative path: its parts joined by "/".
JoinSlash(parts) ==
    IF parts = <<>> THEN <<>>
    ELSE IF Len(parts) = 1 THEN parts[1]
    ELSE parts[1] \o <<"/">> \o JoinSlash(Tail(parts))

\* path.relative_to(local) then str().
RelativeStr(path, local) ==
    JoinSlash(SubSeq(path, Len(local) + 1, Len(path)))

\* path.name: the last part ("" for the filesystem root).
PathName(path) ==
    IF path = <<>> THEN <<>> ELSE path[Len(path)]

\* path.parent
PathParent(path) ==
    IF path = <<>> THEN <<>> ELSE SubSeq(path, 1, Len(path) - 1)

(***************************************************************************)
(* Names and texts of the modelled repository                              *)
(***************************************************************************)

N_repo == <<"r", "e", "p", "o">>
N_git == <<".", "g", "i", "t">>
N_hooks == <<"h", "o", "o", "k", "s">>
N_pkg == <<"p", "k", "g">>
N_a == <<"a", ".", "p", "y">>
N_b == <<"b", ".", "p", "y">>
N_m == <<"m", ".", "p", "y">>
N_env == <<".", "e", "n", "v">>
N_pre == <<"p", "r", "e", ".", "p", "y">>
N_secret == <<"s", "e", "c", "r", "e", "t">>
N_gone == <<"g", "o", "n", "e", ".", "p", "y">>
N_cfg == <<"c", "f", "g">>

L_def_foo == <<"d", "e", "f", " ", "f", "o", "o", "(", ")", ":", " ", "p", "a", "s", "s">>
L_call_foo == <<"f", "o", "o", "(", ")">>
L_foo_eq == <<"f", "o", "o", " ", "=", " ", "1">>
L_Foo_call == <<"F", "o", "o", "(", ")">>
L_key == <<"K", "E", "Y">>

S_foo == <<"f", "o", "o">>
S_Foo == <<"F", "o", "o">>
S_empty == <<>>

\* localpath: pathlib.Path(path).absolute(), here /repo.
local_path == <<N_repo>>

\* The directory tree in scandir order.  It does not change.
DirOrder ==
    << <<N_repo>>,
       <<N_repo, N_git>>,
       <<N_repo, N_pkg>>,
       <<N_repo, N_git, N_hooks>> >>

Dirs == {<<>>} \cup {DirOrder[i] : i \in 1..Len(DirOrder)}

\* Every place a file may exist at, in scandir order.
FileOrder ==
    << <<N_repo, N_env>>,
       <<N_repo, N_a>>,
       <<N_repo, N_b>>,
       <<N_repo, N_gone>>,
       <<N_repo, N_git, N_cfg>>,
       <<N_repo, N_git, N_hooks, N_pre>>,
       <<N_repo, N_pkg, N_m>>,
       <<N_secret>> >>

FileUniverse == {FileOrder[i] : i \in 1..Len(FileOrder)}

NoFile == [exists |-> FALSE, readable |-> FALSE, lines |-> <<>>]

File(lines) == [exists |-> TRUE, readable |-> TRUE, lines |-> lines]

\* The repository at the start of a session.
InitialFiles ==
    [p \in FileUniverse |->
        IF p = <<N_repo, N_a>> THEN File(<<L_def_foo>>)
        ELSE IF p = <<N_repo, N_b>> THEN File(<<L_call_foo>>)
        ELSE IF p = <<N_repo, N_pkg, N_m>> THEN File(<<L_foo_eq, L_Foo_call>>)
        ELSE IF p = <<N_repo, N_env>> THEN File(<<L_key>>)
        ELSE IF p = <<N_repo, N_git, N_cfg>> THEN File(<<L_key>>)
        ELSE IF p = <<N_repo, N_git, N_hooks, N_pre>> THEN File(<<L_call_foo>>)
        ELSE IF p = <<N_secret>> THEN File(<<L_foo_eq>>)
        ELSE NoFile]

(***************************************************************************)
(* Python values: every value carries its type in field t, so that values *)
(* of different types are never compared field by field.                  *)
(***************************************************************************)

Str(s) == [t |-> "str", s |-> s]
None == [t |-> "none"]
\* A JSON array sent as an argument: a Python list, which is unhashable.
ListArg == [t |-> "list"]

\* not x
Falsy(x) ==
    \/ x.t = "none"
    \/ x.t = "str" /\ x.s = <<>>

\* A call either returns a value or raises an exception.
Ret(v) == [raised |-> FALSE, val |-> v]
Raise(e) == [raised |-> TRUE, exc |-> e]

Locs(l) == [t |-> "locs", locs |-> l]

(***************************************************************************)
(* The filesystem: open() for reading, as the kernel resolves the path    *)
(***************************************************************************)

RECURSIVE ResolveOpen(_, _, _)
\* cur is an existing directory, rest the parts still to follow.  ".."
\* moves to the parent; the last part must be a readable file.
ResolveOpen(files, cur, rest) ==
    IF rest = <<>> THEN Raise("IsADirectoryError")
    ELSE LET seg == Head(rest)
             nxt == IF seg = <<".", ".">> THEN PathParent(cur)
                    ELSE Append(cur, seg)
             isFile == nxt \in FileUniverse /\ files[nxt].exists
         IN  IF Tail(rest) = <<>>
             THEN IF nxt \in Dirs THEN Raise("IsADirectoryError")
                  ELSE IF ~isFile THEN Raise("FileNotFoundError")
                  ELSE IF ~files[nxt].readable THEN Raise("PermissionError")
                  ELSE Ret([t |-> "handle", at |-> nxt,
                            lines |-> files[nxt].lines])
             ELSE IF nxt \in Dirs THEN ResolveOpen(files, nxt, Tail(rest))
                  ELSE IF isFile THEN Raise("NotADirectoryError")
                  ELSE Raise("FileNotFoundError")

\* open(str(abs_path), "r")
Open(files, abs_path) ==
    ResolveOpen(files, <<>>, abs_path)

(***************************************************************************)
(* list_files_in_repository                                                *)
(***************************************************************************)

\* The subdirectories and files scandir reports for a directory.
DirNames(path) ==
    SelectSeq(DirOrder, LAMBDA d : d # <<>> /\ PathParent(d) = path /\ d # path)

FileNames(files, path) ==
    SelectSeq(FileOrder, LAMBDA f : PathParent(f) = path /\ files[f].exists)

Reverse(s) ==
    [i \in 1..Len(s) |-> s[Len(s) + 1 - i]]

\* if path.name.startswith("."): dirs.clear(); continue
WalkSkips(path) ==
    StartsWithDot(PathName(path))

\* The loop body without dirs.clear(): every subdirectory is walked.
WalkDescends_NoClear(path) ==
    DirNames(path)

\* The subdirectories Path.walk goes on to after the loop body ran.
WalkDescends(path) ==
    IF WalkSkips(path) THEN <<>> ELSE DirNames(path)

\* The inner loop: the names of the files of one directory, relative to
\* local_path.
WalkFiles(files, path) ==
    IF WalkSkips(path) THEN <<>>
    ELSE LET fs == FileNames(files, path)
         IN  [i \in 1..Len(fs) |-> RelativeStr(fs[i], local_path)]

RECURSIVE Walk(_, _, _)
\* Path.walk, top down: a stack of directories still to visit.  acc.list
\* is file_list, acc.visited the directories the loop body was run for.
Walk(files, stack, acc) ==
    IF stack = <<>> THEN acc
    ELSE LET path == stack[Len(stack)]
             rest == SubSeq(stack, 1, Len(stack) - 1)
         IN  Walk(files,
                  rest \o Reverse(WalkDescends(path)),
                  [list    |-> acc.list \o WalkFiles(files, path),
                   visited |-> Append(acc.visited, path)])

WalkRepository(files) ==
    Walk(files, <<local_path>>, [list |-> <<>>, visited |-> <<>>])

list_files_in_repository(files) ==
    Ret([t |-> "files", files |-> WalkRepository(files).list])

(***************************************************************************)
(* find_string_in_file, find_string_in_repository, get_file_source        *)
(***************************************************************************)

\* abs_path.is_relative_to(local_path), for abs_path = local_path / file_path
InSandbox(file_path) ==
    IsRelativeTo(JoinPath(local_path, file_path), local_path)

\* if string_pattern.lower() in line.lower()
LineMatches(string_pattern, line) ==
    StrIn(Lower(string_pattern), Lower(line))

\* line.index(string_pattern) + 1; 0 stands for ValueError.
LineColumn(string_pattern, line) ==
    StrIndex(line, string_pattern) + 1

RECURSIVE ScanLines(_, _, _, _, _)
\* for line_number, line in enumerate(in_handle): line_number is 0-based.
ScanLines(file_path, string_pattern, lines, line_number, patterns) ==
    IF line_number >= Len(lines) THEN Ret(Locs(patterns))
    ELSE LET line == lines[line_number + 1]
         IN  IF string_pattern.t # "str" THEN Raise("AttributeError")
             ELSE IF ~LineMatches(string_pattern.s, line)
             THEN ScanLines(file_path, string_pattern, lines,
                            line_number + 1, patterns)
             ELSE IF LineColumn(string_pattern.s, line) = 0
             THEN Raise("ValueError")
             ELSE ScanLines(file_path, string_pattern, lines, line_number + 1,
                     Append(patterns,
                            [file_path |-> file_path.s,
                             row       |-> line_number + 1,
                             column    |-> LineColumn(string_pattern.s, line)]))

find_string_in_file(files, file_path, string_pattern) ==
    IF Falsy(file_path) THEN Ret(Locs(<<>>))
    ELSE IF file_path.t # "str" THEN Raise("TypeError")
    ELSE IF ~InSandbox(file_path.s) THEN Ret(Locs(<<>>))
    ELSE LET in_handle == Open(files, JoinPath(local_path, file_path.s))
         IN  IF in_handle.raised THEN in_handle
             ELSE ScanLines(file_path, string_pattern,
                            in_handle.val.lines, 0, <<>>)

\* The loop body without its try statement: a failing search ends the call.
ExtendOne_NoTry(symbols, found) ==
    IF found.raised THEN found
    ELSE Ret(symbols \o found.val.locs)

\* try: symbols.extend(find_string_in_file(file, string_pattern))
\* except: pass
\* A file whose search raised adds nothing and the loop goes on.
ExtendOne(symbols, found) ==
    IF found.raised THEN Ret(symbols)
    ELSE Ret(symbols \o found.val.locs)

RECURSIVE ExtendAll(_, _, _, _)
\* for file in list_files_in_repository(): ...
ExtendAll(files, file_list, string_pattern, symbols) ==
    IF file_list = <<>> THEN Ret(Locs(symbols))
    ELSE LET step == ExtendOne(symbols,
                        find_string_in_file(files, Str(Head(file_list)),
                                            string_pattern))
         IN  IF step.raised THEN step
             ELSE ExtendAll(files, Tail(file_list), string_pattern, step.val)

find_string_in_repository(files, string_pattern) ==
    ExtendAll(files, list_files_in_repository(files).val.files,
              string_pattern, <<>>)

\* The three texts get_file_source builds.
NothingInFile == [t |-> "text", text |-> "Nothing in this file"]

CannotGet(file_path) ==
    [t |-> "text", text |-> "Cannot get contents of", of |-> file_path]

ContentsOf(file_path, lines) ==
    [t |-> "text", text |-> "The contents of", of |-> file_path,
     read |-> lines]

\* The except clause of get_file_source: whatever the try block raised,
\* the sentinel is returned.
SourceOrSentinel(file_path, tried) ==
    IF tried.raised THEN Ret(CannotGet(file_path)) ELSE tried

get_file_source(files, file_path) ==
    IF Falsy(file_path) THEN Ret(NothingInFile)
    ELSE SourceOrSentinel(file_path,
            IF file_path.t # "str" THEN Raise("TypeError")
            ELSE IF ~InSandbox(file_path.s) THEN Ret(CannotGet(file_path))
            ELSE LET in_handle == Open(files, JoinPath(local_path, file_path.s))
                 IN  IF in_handle.raised THEN in_handle
                     ELSE Ret(ContentsOf(file_path, in_handle.val.lines)))

(***************************************************************************)
(* The capabilities that ask the language server.  The server is outside  *)
(* the program: lsp says, for one call of a capability, on which files    *)
(* the server raises and whether what it returns can be serialised.       *)
(***************************************************************************)

\* What the server reports for a file: one symbol, with the document it
\* belongs to.
LspSymbols(lsp, file_path) ==
    <<[name |-> S_foo, plain |-> lsp.plain, uri |-> file_path]>>

\* symbols = lsp.request_document_symbols(file_path)[0]
request_document_symbols(lsp, file_path) ==
    IF file_path.t # "str" THEN Raise("TypeError")
    ELSE IF file_path.s \in lsp.fails THEN Raise("LspError")
    ELSE Ret([t |-> "symbols", symbols |-> LspSymbols(lsp, file_path.s)])

\* d | {"file_path": file} for d in ds
Annotated(ds, file) ==
    [i \in 1..Len(ds) |->
        [name      |-> ds[i].name,
         plain     |-> ds[i].plain,
         uri       |-> ds[i].uri,
         file_path |-> file]]

\* The loop body without its try statement: a failing file ends the call.
ExtendSymbolsOne_NoTry(symbols, file, ds) ==
    IF ds.raised THEN ds
    ELSE Ret(symbols \o Annotated(ds.val.symbols, file))

\* try: ds = request_document_symbols(file);
\*      symbols.extend(d | {"file_path": file} for d in ds)
\* except: pass
ExtendSymbolsOne(symbols, file, ds) ==
    IF ds.raised THEN Ret(symbols)
    ELSE Ret(symbols \o Annotated(ds.val.symbols, file))

RECURSIVE ExtendSymbols(_, _, _)
\* for file in list_files_in_repository(): ...
ExtendSymbols(lsp, file_list, symbols) ==
    IF file_list = <<>> THEN Ret([t |-> "symbols", symbols |-> symbols])
    ELSE LET file == Head(file_list)
             step == ExtendSymbolsOne(symbols, file,
                        request_document_symbols(lsp, Str(file)))
         IN  IF step.raised THEN step
             ELSE ExtendSymbols(lsp, Tail(file_list), step.val)

request_repository_symbols(files, lsp) ==
    ExtendSymbols(lsp, list_files_in_repository(files).val.files, <<>>)

\* [lsp.request_references(file_path, pattern["row"], pattern["column"])
\*  for pattern in find_string_in_file(file_path, code)]
request_references(files, lsp, file_path, code) ==
    LET found == find_string_in_file(files, file_path, code)
    IN  IF found.raised THEN found
        ELSE IF found.val.locs # <<>> /\ file_path.s \in lsp.fails
        THEN Raise("LspError")
        ELSE Ret([t |-> "refs",
                  refs |-> [i \in 1..Len(found.val.locs) |->
                              [row    |-> found.val.locs[i].row,
                               column |-> found.val.locs[i].column,
                               plain  |-> lsp.plain]]])

(***************************************************************************)
(* The registry: tool_dict, each function wrapped by functools.cache      *)
(***************************************************************************)

ToolNames ==
    {"list_files_in_repository", "find_string_in_file",
     "find_string_in_repository", "request_document_symbols",
     "request_repository_symbols", "request_references", "get_file_source"}

\* The parameters of each function; all are required.
Params(name) ==
    CASE name = "list_files_in_repository" -> {}
      [] name = "find_string_in_file" -> {"file_path", "string_pattern"}
      [] name = "find_string_in_repository" -> {"string_pattern"}
      [] name = "request_document_symbols" -> {"file_path"}
      [] name = "request_repository_symbols" -> {}
      [] name = "request_references" -> {"file_path", "code"}
      [] name = "get_file_source" -> {"file_path"}

\* f(**arguments) for the undecorated function f.
CallFunction(name, files, lsp, arguments) ==
    IF DOMAIN arguments # Params(name) THEN Raise("TypeError")
    ELSE CASE name = "list_files_in_repository" ->
                list_files_in_repository(files)
           [] name = "find_string_in_file" ->
                find_string_in_file(files, arguments.file_path,
                                    arguments.string_pattern)
           [] name = "find_string_in_repository" ->
                find_string_in_repository(files, arguments.string_pattern)
           [] name = "request_document_symbols" ->
                request_document_symbols(lsp, arguments.file_path)
           [] name = "request_repository_symbols" ->
                request_repository_symbols(files, lsp)
           [] name = "request_references" ->
                request_references(files, lsp, arguments.file_path,
                                   arguments.code)
           [] name = "get_file_source" ->
                get_file_source(files, arguments.file_path)

\* functools.cache builds its key from the keyword arguments and hashes it.
Hashable(arguments) ==
    \A k \in DOMAIN arguments : arguments[k].t # "list"

\* A registry whose functions are not memoized.
CacheEntries_Undecorated(memo, name, arguments) ==
    {}

CacheEntries(memo, name, arguments) ==
    {e \in memo : e.name = name /\ e.arguments = arguments}

\* A cache that also keeps a failed call, as a call that returned None.
CacheStore_KeepsFailures(memo, name, arguments, out) ==
    memo \cup {[name |-> name, arguments |-> arguments,
                val |-> IF out.raised THEN None ELSE out.val]}

\* What a call stores: functools.cache keeps the value a call returned
\* and nothing of a call that raised.
CacheStore(memo, name, arguments, out) ==
    IF out.raised THEN memo
    ELSE memo \cup {[name |-> name, arguments |-> arguments, val |-> out.val]}

\* tool_dict[name](**arguments): the memoized function.  executed says
\* whether the body of the function ran.
CallCached(memo, name, files, lsp, arguments) ==
    IF ~Hashable(arguments)
    THEN [out |-> Raise("TypeError"), memo |-> memo, executed |-> FALSE]
    ELSE IF CacheEntries(memo, name, arguments) # {}
    THEN [out |-> Ret((CHOOSE e \in CacheEntries(memo, name, arguments) :
                          TRUE).val),
          memo |-> memo, executed |-> FALSE]
    ELSE LET out == CallFunction(name, files, lsp, arguments)
         IN  [out |-> out,
              memo |-> CacheStore(memo, name, arguments, out),
              executed |-> TRUE]

\* tool_func = tool_dict.get(name); tool_func(**arguments): calling None
\* raises TypeError.
CallTool(memo, name, files, lsp, arguments) ==
    IF name \notin ToolNames
    THEN [out |-> Raise("TypeError"), memo |-> memo, executed |-> FALSE]
    ELSE CallCached(memo, name, files, lsp, arguments)

(***************************************************************************)
(* json.dumps and the messages of the conversation                         *)
(***************************************************************************)

\* Whether json.dumps accepts a value: what the capabilities build
\* themselves always is; what the language server returned may not be.
Serializable(val) ==
    CASE val.t = "symbols" ->
            \A i \in 1..Len(val.symbols) : val.symbols[i].plain
      [] val.t = "refs" -> \A i \in 1..Len(val.refs) : val.refs[i].plain
      [] OTHER -> TRUE

\* json.dumps(tool_return_value)
JsonDumps(val) ==
    IF Serializable(val) THEN Ret([t |-> "json", of |-> val])
    ELSE Raise("TypeError")

Message(role, content) == [role |-> role, content |-> content]

\* The history before the first chat call: the system prompt, the file
\* listing and the question.
SeedMessages(listing, prompt) ==
    << Message("system", [t |-> "text", text |-> "PROMPT"]),
       Message("assistant", [t |-> "text",
                             text |-> "Here are the names of all the files",
                             read |-> listing]),
       Message("user", prompt) >>

\* What the except clause of the dispatch loop does to the history with
\* the exception it caught: it prints it and appends nothing.
AfterFailedCall(history, exc) ==
    history

\* The try block putting the tool message in front of the history.
AfterToolCall_Prepend(history, out) ==
    IF out.raised THEN AfterFailedCall(history, out.exc)
    ELSE IF JsonDumps(out.val).raised
    THEN AfterFailedCall(history, JsonDumps(out.val).exc)
    ELSE <<Message("tool", JsonDumps(out.val).val)>> \o history

\* What the try block does to the history with a value the tool returned.
AfterToolCall(history, out) ==
    IF out.raised THEN AfterFailedCall(history, out.exc)
    ELSE IF JsonDumps(out.val).raised
    THEN AfterFailedCall(history, JsonDumps(out.val).exc)
    ELSE Append(history, Message("tool", JsonDumps(out.val).val))

\* while made_tool_calls_in_this_loop and loops < 10
MaxLoops == 10

\* The loop test with an off-by-one budget.
LoopContinues_Inclusive(made, n) ==
    made /\ n <= MaxLoops

\* The loop test without the flag.
LoopContinues_IgnoresFlag(made, n) ==
    n < MaxLoops

LoopContinues(made, n) ==
    made /\ n < MaxLoops

\* except Exception: the classes of everything a tool call raises here.
ExceptionClasses ==
    {"TypeError", "ValueError", "AttributeError", "FileNotFoundError",
     "PermissionError", "IsADirectoryError", "NotADirectoryError", "LspError"}

\* Whether the except clause of the dispatch loop catches what a call
\* raised.
CaughtByDriver(exc) ==
    exc \in ExceptionClasses

\* The flag set at the end of the try block: a call that raised leaves it.
MadeAfterCall_OnlyOnSuccess(made, out) ==
    made \/ ~out.raised

\* made_tool_calls_in_this_loop = True, after the try statement: it is set
\* for every requested call, whatever became of it.
MadeAfterCall(made, out) ==
    TRUE

(***************************************************************************)
(* The inputs: file paths, tool call requests, chat responses, language   *)
(* server behaviours, repository changes                                   *)
(***************************************************************************)

P_a == N_a
P_gone == N_gone
P_b == N_b
P_m == N_pkg \o <<"/">> \o N_m
P_up_secret == <<".", ".", "/">> \o N_secret
P_abs_secret == <<"/">> \o N_secret

Req(name, arguments) == [name |-> name, arguments |-> arguments]

NoArguments == [k \in {} |-> None]

\* The requests a client of the registry may make.
Requests ==
    {Req("list_files_in_repository", NoArguments),
     Req("request_repository_symbols", NoArguments),
     Req("find_string_in_repository", [string_pattern |-> Str(S_foo)]),
     Req("request_document_symbols", [file_path |-> Str(P_a)]),
     Req("request_references", [file_path |-> Str(P_a), code |-> Str(S_foo)])}
    \cup {Req("find_string_in_file",
              [file_path |-> Str(f), string_pattern |-> Str(S_foo)]) :
            f \in {P_a, P_m, P_gone, P_up_secret, P_abs_secret, S_empty}}
    \cup {Req("get_file_source", [file_path |-> f]) :
            f \in {Str(P_a), Str(P_gone), Str(P_up_secret), Str(S_empty),
                   ListArg}}

\* The behaviours of the language server during one call.
LspBehaviours ==
    {[fails |-> {}, plain |-> TRUE],
     [fails |-> {P_a}, plain |-> TRUE],
     [fails |-> {}, plain |-> FALSE]}

\* The capabilities that ask the language server; the others behave the
\* same whatever the server does.
LspTools ==
    {"request_document_symbols", "request_repository_symbols",
     "request_references"}

LspQuiet == [fails |-> {}, plain |-> TRUE]

LspDuring(req) ==
    IF req.name \in LspTools THEN LspBehaviours ELSE {LspQuiet}

\* What a file may be changed to while a session runs.
Unreadable(lines) == [exists |-> TRUE, readable |-> FALSE, lines |-> lines]

Changes ==
    {[path |-> <<N_repo, N_a>>, to |-> File(<<L_call_foo>>)],
     [path |-> <<N_repo, N_a>>, to |-> Unreadable(<<L_def_foo>>)],
     [path |-> <<N_repo, N_gone>>, to |-> File(<<L_call_foo>>)]}

\* The batches of tool calls a chat response may carry.
BatchUnknown ==
    << Req("no_such_tool", [file_path |-> Str(P_a)]) >>

BatchMixed ==
    << Req("find_string_in_file",
           [file_path |-> Str(P_gone), string_pattern |-> Str(S_foo)]),
       Req("get_file_source", [path |-> Str(P_a)]),
       Req("get_file_source", [file_path |-> ListArg]),
       Req("request_document_symbols", [file_path |-> Str(P_a)]),
       Req("list_files_in_repository", NoArguments),
       Req("get_file_source", [file_path |-> Str(P_a)]) >>

ToolBatches == {BatchUnknown, BatchMixed}

Responses ==
    {[bound |-> TRUE, content |-> c, tool_calls |-> b] :
        c \in {Str(<<"o", "k">>), None}, b \in ToolBatches \cup {<<>>}}

Unbound == [bound |-> FALSE, content |-> None, tool_calls |-> <<>>]

Question == Str(<<"q">>)

MaxCalls == 2
MaxChanges == 1

(***************************************************************************)
(* The front ends: the HTTP handler and the command line                  *)
(***************************************************************************)

\* RepositoryAnswer(response=value): pydantic validates response: str.
RepositoryAnswer(value) ==
    IF value.t = "str" THEN Ret([t |-> "answer", response |-> value])
    ELSE Raise("ValidationError")

\* The handler of POST /query: nothing in it catches what
\* query_repo_for_information or RepositoryAnswer raises.
query_repo(outcome) ==
    IF outcome.raised THEN outcome
    ELSE RepositoryAnswer(outcome.val)

\* The click command: print(" -> ", return_value).
main(outcome) ==
    IF outcome.raised THEN outcome
    ELSE Ret([t |-> "printed", text |-> outcome.val])

(***************************************************************************)
(* Sessions that run at the same time and their registries                 *)
(***************************************************************************)

Sessions == {1, 2}

\* One registry for the whole process, built once at import time.
RegistryOf_Shared(s) ==
    1

\* tool_dict = compute_tools_for_context(localpath, lsp), inside
\* query_repo_for_information: every session builds its own registry,
\* with its own functools.cache wrappers.
RegistryOf(s) ==
    s

\* The tool calls the chat service requests of a session.
SessionRequests ==
    {Req("get_file_source", [file_path |-> Str(P_a)]),
     Req("find_string_in_file",
         [file_path |-> Str(P_gone), string_pattern |-> Str(S_foo)]),
     Req("list_files_in_repository", NoArguments)}

MaxTurns == 2

(***************************************************************************)
(* State                                                                   *)
(***************************************************************************)

VARIABLES
    disk,        \* the files on disk: FileUniverse -> [exists, readable, lines]
    memo,        \* the functools.cache entries of tool_dict, of one session
    server,      \* the language server: "off", "running", "stopped"
    pc,          \* where query_repo_for_information is
    messages,    \* the message history
    loops,       \* the loop counter
    made_tool_calls_in_this_loop,
    response,    \* the last chat response
    idx,         \* the tool call of the response the for loop is at
    result,      \* what query_repo_for_information returned
    front,       \* the front end query_repo_for_information returned to
    answer,      \* what the front end made of the call
    sess,        \* concurrent sessions: session -> [pc, messages, loops, result]
    caches,      \* concurrent sessions: registry -> its functools.cache entries
    chat_calls,  \* history: the calls of Client().chat
    sent,        \* history: the messages the last chat call was given
    firsts,      \* history: the first call of each (name, arguments) and its outcome
    ncalls,      \* history: the calls a registry client made
    nchanges,    \* history: the changes made to the repository
    last         \* history: what the last step did

vars ==
    <<disk, memo, server, pc, messages, loops, made_tool_calls_in_this_loop,
      response, idx, result, front, answer, sess, caches, chat_calls, sent,
      firsts, ncalls, nchanges, last>>

driverVars ==
    <<pc, messages, loops, made_tool_calls_in_this_loop, response, idx,
      result, front, answer, chat_calls, sent>>

sessionVars ==
    <<sess, caches>>

Unset == [t |-> "unset"]

\* The history of calls: the outcome of the first call of each key.
Seen(name, arguments) ==
    {f \in firsts : f.name = name /\ f.arguments = arguments}

Remember(name, arguments, out) ==
    IF Seen(name, arguments) # {} THEN firsts
    ELSE firsts \cup {[name |-> name, arguments |-> arguments, out |-> out]}

\* What a step that calls a tool records of it.
CallEvent(kind, req, call, at, lsp) ==
    [kind      |-> kind,
     name      |-> req.name,
     arguments |-> req.arguments,
     out       |-> call.out,
     executed  |-> call.executed,
     seen      |-> Seen(req.name, req.arguments) # {},
     first     |-> IF Seen(req.name, req.arguments) # {}
                   THEN (CHOOSE f \in Seen(req.name, req.arguments) : TRUE).out
                   ELSE call.out,
     at        |-> at,
     before    |-> Len(messages),
     server    |-> server,
     lsp       |-> lsp]

(***************************************************************************)
(* query_repo_for_information                                              *)
(***************************************************************************)

NewSession ==
    [pc |-> "start", messages |-> <<>>, loops |-> 0, result |-> Unset]

StartState ==
    /\ disk = InitialFiles
    /\ memo = {}
    /\ server = "off"
    /\ messages = <<>>
    /\ loops = 0
    /\ made_tool_calls_in_this_loop = FALSE
    /\ response = Unbound
    /\ idx = 0
    /\ result = Unset
    /\ front = "none"
    /\ answer = Unset
    /\ sess = [s \in Sessions |-> NewSession]
    /\ caches = [g \in Sessions |-> {}]
    /\ chat_calls = 0
    /\ sent = <<>>
    /\ firsts = {}
    /\ ncalls = 0
    /\ nchanges = 0
    /\ last = [kind |-> "none"]

Init ==
    /\ StartState
    /\ pc = "start"

\* A plain start and stop around the loop: an exception leaves the server
\* as it is.
ExitWith_NoFinally(srv, raised) ==
    IF raised THEN srv ELSE "stopped"

\* Leaving the block of `with lsp.start_server():`, by return or by an
\* exception: the context manager stops the server.
ExitWith(srv, raised) ==
    "stopped"

\* Lines 163-168: the server is created and the with block entered.
StartServer ==
    /\ pc = "start"
    /\ server = "off"
    /\ server' = "running"
    /\ pc' = "seed"
    /\ last' = [kind |-> "start_server"]
    /\ UNCHANGED <<disk, memo, messages, loops, made_tool_calls_in_this_loop,
                   response, idx, result, front, answer, chat_calls, sent,
                   firsts, ncalls, nchanges>>
    /\ UNCHANGED sessionVars

\* Lines 169-185: the registry is built and the history seeded with the
\* file listing (a call of the memoized function).
StartSession ==
    /\ pc = "seed"
    /\ LET call == CallTool(memo, "list_files_in_repository", disk,
                            LspQuiet, NoArguments)
       IN  /\ memo' = call.memo
           /\ messages' = SeedMessages(call.out.val.files, Question)
           /\ firsts' = Remember("list_files_in_repository", NoArguments,
                                 call.out)
           /\ last' = CallEvent("listing",
                                Req("list_files_in_repository", NoArguments),
                                call, 0, LspQuiet)
    /\ made_tool_calls_in_this_loop' = TRUE
    /\ loops' = 0
    /\ pc' = "loop"
    /\ UNCHANGED <<disk, server, response, idx, result, front, answer,
                   chat_calls, sent, ncalls, nchanges>>
    /\ UNCHANGED sessionVars

\* Lines 187-193: the loop test holds, Client().chat returns a response.
Chat(r) ==
    /\ pc = "loop"
    /\ LoopContinues(made_tool_calls_in_this_loop, loops)
    /\ response' = r
    /\ made_tool_calls_in_this_loop' = FALSE
    /\ idx' = 1
    /\ chat_calls' = chat_calls + 1
    /\ sent' = messages
    /\ pc' = "tools"
    /\ last' = [kind |-> "chat", sent |-> messages]
    /\ UNCHANGED <<disk, memo, server, messages, loops, result, front, answer,
                   firsts, ncalls, nchanges>>
    /\ UNCHANGED sessionVars

\* Client().chat raises: nothing catches it, the with statement stops the
\* server and query_repo_for_information raises.
ChatRaises ==
    /\ pc = "loop"
    /\ LoopContinues(made_tool_calls_in_this_loop, loops)
    /\ chat_calls' = chat_calls + 1
    /\ sent' = messages
    /\ server' = ExitWith(server, TRUE)
    /\ pc' = "raised"
    /\ last' = [kind |-> "chat_raised", sent |-> messages]
    /\ UNCHANGED <<disk, memo, messages, loops, made_tool_calls_in_this_loop,
                   response, idx, result, front, answer, firsts, ncalls,
                   nchanges>>
    /\ UNCHANGED sessionVars

\* Lines 195-210: one tool call of the response.
DispatchWith(lsp) ==
    LET req == response.tool_calls[idx]
        call == CallTool(memo, req.name, disk, lsp, req.arguments)
        escapes == call.out.raised /\ ~CaughtByDriver(call.out.exc)
    IN  /\ memo' = call.memo
        /\ firsts' = Remember(req.name, req.arguments, call.out)
        /\ last' = CallEvent("dispatch", req, call, idx, lsp)
        /\ IF escapes
           THEN /\ pc' = "raised"
                /\ server' = ExitWith(server, TRUE)
                /\ UNCHANGED <<messages, made_tool_calls_in_this_loop, idx>>
           ELSE /\ messages' = AfterToolCall(messages, call.out)
                /\ made_tool_calls_in_this_loop' =
                     MadeAfterCall(made_tool_calls_in_this_loop, call.out)
                /\ idx' = idx + 1
                /\ UNCHANGED <<pc, server>>

Dispatch ==
    /\ pc = "tools"
    /\ idx <= Len(response.tool_calls)
    /\ \E lsp \in LspDuring(response.tool_calls[idx]) : DispatchWith(lsp)
    /\ UNCHANGED <<disk, loops, response, result, front, answer, chat_calls,
                   sent, ncalls, nchanges>>
    /\ UNCHANGED sessionVars

\* Line 212: the for loop is over, loops += 1.
EndBatch ==
    /\ pc = "tools"
    /\ idx > Len(response.tool_calls)
    /\ loops' = loops + 1
    /\ pc' = "loop"
    /\ last' = [kind |-> "end_batch"]
    /\ UNCHANGED <<disk, memo, server, messages, made_tool_calls_in_this_loop,
                   response, idx, result, front, answer, chat_calls, sent,
                   firsts, ncalls, nchanges>>
    /\ UNCHANGED sessionVars

\* Line 214: the loop test fails; the content of the last response is
\* returned and the with statement stops the server.
Return ==
    /\ pc = "loop"
    /\ ~LoopContinues(made_tool_calls_in_this_loop, loops)
    /\ result' = response.content
    /\ server' = ExitWith(server, FALSE)
    /\ pc' = "done"
    /\ last' = [kind |-> "return"]
    /\ UNCHANGED <<disk, memo, messages, loops, made_tool_calls_in_this_loop,
                   response, idx, front, answer, chat_calls, sent, firsts,
                   ncalls, nchanges>>
    /\ UNCHANGED sessionVars

\* How the call of query_repo_for_information ended for its caller.
SessionOutcome ==
    IF pc = "raised" THEN Raise("ChatError") ELSE Ret(result)

\* Lines 228-234: the call was made by the HTTP handler, which builds its
\* answer from what the call returned.
QueryRepo ==
    /\ pc \in {"done", "raised"}
    /\ answer = Unset
    /\ front' = "http"
    /\ answer' = query_repo(SessionOutcome)
    /\ UNCHANGED <<disk, memo, server, pc, messages, loops,
                   made_tool_calls_in_this_loop, response, idx, result,
                   chat_calls, sent, firsts, ncalls, nchanges, last>>
    /\ UNCHANGED sessionVars

\* Lines 241-247: the call was made by the command, which prints what the
\* call returned.
Main ==
    /\ pc \in {"done", "raised"}
    /\ answer = Unset
    /\ front' = "cli"
    /\ answer' = main(SessionOutcome)
    /\ UNCHANGED <<disk, memo, server, pc, messages, loops,
                   made_tool_calls_in_this_loop, response, idx, result,
                   chat_calls, sent, firsts, ncalls, nchanges, last>>
    /\ UNCHANGED sessionVars

Next ==
    \/ StartServer
    \/ StartSession
    \/ \E r \in Responses : Chat(r)
    \/ ChatRaises
    \/ Dispatch
    \/ EndBatch
    \/ Return
    \/ QueryRepo
    \/ Main

Spec == Init /\ [][Next]_vars

(***************************************************************************)
(* The registry of one session used directly: any request at any time,    *)
(* while the repository changes                                            *)
(***************************************************************************)

InitReg ==
    /\ StartState
    /\ pc = "registry"

\* tool_dict[name](**arguments)
Invoke(req, lsp) ==
    /\ pc = "registry"
    /\ ncalls < MaxCalls
    /\ LET call == CallTool(memo, req.name, disk, lsp, req.arguments)
       IN  /\ memo' = call.memo
           /\ firsts' = Remember(req.name, req.arguments, call.out)
           /\ last' = CallEvent("call", req, call, 0, lsp)
    /\ ncalls' = ncalls + 1
    /\ UNCHANGED <<disk, server, nchanges>>
    /\ UNCHANGED driverVars
    /\ UNCHANGED sessionVars

\* Something outside the program changes a file.
Change(c) ==
    /\ pc \in {"registry", "sessions"}
    /\ nchanges < MaxChanges
    /\ disk[c.path] # c.to
    /\ disk' = [disk EXCEPT ![c.path] = c.to]
    /\ nchanges' = nchanges + 1
    /\ last' = [kind |-> "change"]
    /\ UNCHANGED <<memo, server, firsts, ncalls>>
    /\ UNCHANGED driverVars
    /\ UNCHANGED sessionVars

NextReg ==
    \/ \E req \in Requests : \E lsp \in LspDuring(req) : Invoke(req, lsp)
    \/ \E c \in Changes : Change(c)

SpecReg == InitReg /\ [][NextReg]_vars

\* The driver is one thread that runs on while a step is left: the chat
\* service and every tool return or raise.
FairSpec == Spec /\ WF_vars(Next)

(***************************************************************************)
(* Two sessions at the same time, each a call of                           *)
(* query_repo_for_information in a thread of its own, interleaved at the   *)
(* rounds of their loops, while the repository changes                     *)
(***************************************************************************)

InitSessions ==
    /\ StartState
    /\ pc = "sessions"

\* What a step of a session records of the tool call it made.
SessionEvent(kind, s, req, call) ==
    [kind      |-> kind,
     session   |-> s,
     name      |-> req.name,
     arguments |-> req.arguments,
     out       |-> call.out,
     executed  |-> call.executed]

\* History: the calls a session's tool function body ran for and returned
\* from.
Executed(s, req, call) ==
    IF call.executed /\ ~call.out.raised
    THEN firsts \cup {[session |-> s, name |-> req.name,
                       arguments |-> req.arguments, out |-> call.out]}
    ELSE firsts

\* Lines 163-185 in session s: its registry is built and its history
\* seeded with the file listing.
Begin(s) ==
    /\ pc = "sessions"
    /\ sess[s].pc = "start"
    /\ LET req == Req("list_files_in_repository", NoArguments)
           call == CallTool(caches[RegistryOf(s)], req.name, disk, LspQuiet,
                            req.arguments)
       IN  /\ caches' = [caches EXCEPT ![RegistryOf(s)] = call.memo]
           /\ sess' = [sess EXCEPT ![s] =
                        [pc |-> "loop",
                         messages |-> SeedMessages(call.out.val.files,
                                                   Question),
                         loops |-> 0,
                         result |-> Unset]]
           /\ firsts' = Executed(s, req, call)
           /\ last' = SessionEvent("begin", s, req, call)
    /\ UNCHANGED <<disk, memo, server, ncalls, nchanges>>
    /\ UNCHANGED driverVars

\* Lines 187-212 in session s: one round of the loop, for a response that
\* requests one tool call.
Turn(s, req) ==
    /\ pc = "sessions"
    /\ sess[s].pc = "loop"
    /\ LoopContinues(TRUE, sess[s].loops)
    /\ sess[s].loops < MaxTurns
    /\ LET call == CallTool(caches[RegistryOf(s)], req.name, disk, LspQuiet,
                            req.arguments)
       IN  /\ caches' = [caches EXCEPT ![RegistryOf(s)] = call.memo]
           /\ sess' = [sess EXCEPT ![s] =
                        [pc |-> "loop",
                         messages |-> AfterToolCall(sess[s].messages,
                                                    call.out),
                         loops |-> sess[s].loops + 1,
                         result |-> Unset]]
           /\ firsts' = Executed(s, req, call)
           /\ last' = SessionEvent("turn", s, req, call)
    /\ UNCHANGED <<disk, memo, server, ncalls, nchanges>>
    /\ UNCHANGED driverVars

\* Lines 187-214 in session s: a response without tool calls ends the
\* loop and its content is returned.
Answer(s, content) ==
    /\ pc = "sessions"
    /\ sess[s].pc = "loop"
    /\ LoopContinues(TRUE, sess[s].loops)
    /\ sess' = [sess EXCEPT ![s] =
                    [pc |-> "done",
                     messages |-> sess[s].messages,
                     loops |-> sess[s].loops + 1,
                     result |-> content]]
    /\ last' = [kind |-> "answer", session |-> s]
    /\ UNCHANGED <<disk, memo, server, caches, firsts, ncalls, nchanges>>
    /\ UNCHANGED driverVars

NextSessions ==
    \/ \E s \in Sessions : Begin(s)
    \/ \E s \in Sessions : \E req \in SessionRequests : Turn(s, req)
    \/ \E s \in Sessions : Answer(s, Str(<<"o", "k">>))
    \/ \E c \in Changes : Change(c)

SpecSessions == InitSessions /\ [][NextSessions]_vars

(***************************************************************************)
(* Properties of the conversation driver                                   *)
(***************************************************************************)

\* The tool call the last step dispatched did not yield a message: the
\* tool raised, or json.dumps refused what it returned.
DispatchFailed ==
    /\ last.kind = "dispatch"
    /\ (last.out.raised \/ ~Serializable(last.out.val))

Finished == pc \in {"done", "raised"}

C1_Budget ==
    /\ chat_calls <= MaxLoops
    /\ (pc = "raised" => last.kind = "chat_raised")
    /\ (pc = "done" /\ response.tool_calls # <<>>) =>
            /\ chat_calls = MaxLoops
            /\ loops = MaxLoops
            /\ result = response.content

\* C1: when every response of the chat service requests at least one tool
\* call, query_repo_for_information calls the chat service exactly 10
\* times and then returns; it never makes an 11th call, it ends on every
\* run, and it raises only when the chat service itself raised, whatever
\* the requested tools did.
C1_TenChatCallsThenReturn ==
    []C1_Budget /\ <>Finished

\* C1 witness: a session returned while its last response still requested
\* tool calls, after failing and succeeding calls.
C1_Witness ==
    /\ pc = "done"
    /\ response.tool_calls = BatchUnknown
    /\ chat_calls = MaxLoops
    /\ Len(messages) > 3

\* C3: every tool call that fails to dispatch appends a `tool` message
\* describing the failure to the history.
C3_FailureAppendsToolMessage ==
    DispatchFailed =>
        /\ Len(messages) = last.before + 1
        /\ messages[Len(messages)].role = "tool"

\* C4: a failed tool call never aborts the session: the for loop goes on
\* to the next call of the batch with the flag set, and after a batch
\* that requested tool calls, all of them failed or not, the loop test
\* holds while the budget lasts, so the next chat call is made.
C4_FailedCallDoesNotAbort ==
    /\ DispatchFailed =>
            /\ pc = "tools"
            /\ idx = last.at + 1
            /\ made_tool_calls_in_this_loop
    /\ (pc = "loop" /\ response.tool_calls # <<>> /\ loops < MaxLoops) =>
            LoopContinues(made_tool_calls_in_this_loop, loops)

\* C4 witness: a batch whose only call failed is over and the budget is
\* not exhausted.
C4_Witness ==
    /\ pc = "loop"
    /\ response.tool_calls = BatchUnknown
    /\ loops \in 1..(MaxLoops - 1)
    /\ last.kind = "end_batch"

(***************************************************************************)
(* Properties of the capabilities                                          *)
(***************************************************************************)

RECURSIVE NormalizeParts(_, _)
\* The path with every ".." resolved against the part before it.
NormalizeParts(parts, acc) ==
    IF parts = <<>> THEN acc
    ELSE IF Head(parts) = <<".", ".">>
    THEN NormalizeParts(Tail(parts), PathParent(acc))
    ELSE NormalizeParts(Tail(parts), Append(acc, Head(parts)))

\* local_path / s names a place that is not within local_path.
EscapesRoot(s) ==
    ~IsRelativeTo(NormalizeParts(JoinPath(local_path, s), <<>>), local_path)

HasTraversal(s) ==
    \E i \in 1..Len(ParsePath(s).parts) : ParsePath(s).parts[i] = <<".", ".">>

\* The last step was a call of this capability through the registry.
LastCall(name) ==
    last.kind = "call" /\ last.name = name

\* C2: for a path with a traversal sequence that leads out of the
\* repository root, the sandbox rejects the path: find_string_in_file
\* returns the empty sequence and get_file_source the sentinel
\* "Cannot get contents of <path>".
C2_TraversalRejected ==
    \A name \in {"find_string_in_file", "get_file_source"} :
        ( /\ LastCall(name)
          /\ last.executed
          /\ DOMAIN last.arguments = Params(name)
          /\ last.arguments.file_path.t = "str"
          /\ HasTraversal(last.arguments.file_path.s)
          /\ EscapesRoot(last.arguments.file_path.s) )
        => /\ ~InSandbox(last.arguments.file_path.s)
           /\ ~last.out.raised
           /\ last.out.val = IF name = "find_string_in_file" THEN Locs(<<>>)
                             ELSE CannotGet(last.arguments.file_path)

C6_GetFileSourceNeverRaises ==
    (LastCall("get_file_source") /\ DOMAIN last.arguments = {"file_path"}) =>
        /\ ~last.out.raised
        /\ last.out.val.t = "text"

\* The path is empty, names no file, names a file that cannot be read, or
\* is an absolute path outside the root.
BadPath(s) ==
    \/ s = <<>>
    \/ ~HasTraversal(s) /\ EscapesRoot(s)
    \/ ~HasTraversal(s) /\ Open(disk, JoinPath(local_path, s)).raised

\* C7: find_string_in_file returns the empty sequence and does not raise
\* when the path is empty, invalid, outside the sandbox or unreadable.
C7_BadPathGivesEmpty ==
    ( /\ LastCall("find_string_in_file")
      /\ last.executed
      /\ BadPath(last.arguments.file_path.s) )
    => /\ ~last.out.raised
       /\ last.out.val = Locs(<<>>)

\* The 1-based numbers of the lines that contain the pattern, compared
\* without regard to case.
MatchingRows(lines, pattern) ==
    SelectSeq([i \in 1..Len(lines) |-> i],
              LAMBDA i : StrIn(Lower(pattern), Lower(lines[i])))

\* C8: for a readable file inside the sandbox, find_string_in_file
\* returns one location for every line that contains the pattern compared
\* case-insensitively, in line order, with the row of the line and a
\* column of at least 1, also when the case of the pattern differs from
\* the text of the line.
C8_OneLocationPerMatchingLine ==
    ( /\ LastCall("find_string_in_file")
      /\ last.executed
      /\ ~EscapesRoot(last.arguments.file_path.s)
      /\ ~Open(disk, JoinPath(local_path, last.arguments.file_path.s)).raised )
    => LET lines == Open(disk, JoinPath(local_path,
                              last.arguments.file_path.s)).val.lines
           rows == MatchingRows(lines, last.arguments.string_pattern.s)
       IN  /\ ~last.out.raised
           /\ Len(last.out.val.locs) = Len(rows)
           /\ \A i \in 1..Len(rows) :
                 /\ last.out.val.locs[i].row = rows[i]
                 /\ last.out.val.locs[i].column >= 1
                 /\ last.out.val.locs[i].file_path = last.arguments.file_path.s

RECURSIVE PerFile(_, _, _)
\* The results of find_string_in_file over the files, in order, a file
\* whose search raises giving nothing.
PerFile(files, file_list, pattern) ==
    IF file_list = <<>> THEN <<>>
    ELSE LET one == find_string_in_file(files, Str(Head(file_list)), pattern)
         IN  (IF one.raised THEN <<>> ELSE one.val.locs)
             \o PerFile(files, Tail(file_list), pattern)

\* The search patterns tried on every state the repository gets into
\* (each arises before any call is made): strings, and values that are
\* no strings.
SearchPatterns == {Str(S_foo), Str(S_Foo), Str(S_empty), None, ListArg}

\* C9: find_string_in_repository never raises and returns, in the order
\* of list_files_in_repository, the results of find_string_in_file over
\* every listed file, a file whose search fails giving nothing; with
\* a.py = "def foo(): pass" and b.py = "foo()" the search for "foo" gives
\* a.py row 1 column 5 and b.py row 1 column 1.
C9_RepositorySearchConcatenates ==
    /\ (pc = "registry" /\ ncalls = 0) =>
          LET file_list == WalkRepository(disk).list
          IN  \A pattern \in SearchPatterns :
                LET out == find_string_in_repository(disk, pattern)
                IN  /\ ~out.raised
                    /\ out.val.locs = PerFile(disk, file_list, pattern)
    /\ (LastCall("find_string_in_repository") /\ last.executed) =>
          /\ ~last.out.raised
          /\ last.out.val.locs =
                PerFile(disk, WalkRepository(disk).list,
                        last.arguments.string_pattern)
          /\ disk = InitialFiles =>
                last.out.val.locs =
                    << [file_path |-> P_a, row |-> 1, column |-> 5],
                       [file_path |-> P_b, row |-> 1, column |-> 1] >>

\* C9 witness: the search ran over a repository in which the search of
\* one listed file raises, and returned the two locations.
C9_Witness ==
    /\ LastCall("find_string_in_repository")
    /\ last.executed
    /\ Len(last.out.val.locs) = 2
    /\ \E i \in 1..Len(WalkRepository(disk).list) :
          find_string_in_file(disk, Str(WalkRepository(disk).list[i]),
                              last.arguments.string_pattern).raised

\* The directories below the root whose name begins with ".".
HiddenDirs ==
    {d \in Dirs : /\ d # local_path
                  /\ IsRelativeTo(d, local_path)
                  /\ StartsWithDot(PathName(d))}

Beneath(path, dir) ==
    path # dir /\ IsRelativeTo(path, dir)

\* C10: list_files_in_repository returns no path beneath a directory
\* whose name begins with ".", at any depth, and the walk enters no
\* directory beneath one.
C10_HiddenDirectoriesPruned ==
    /\ (pc = "registry" /\ ncalls = 0) =>
          LET walked == WalkRepository(disk)
          IN  \A d \in HiddenDirs :
                /\ \A i \in 1..Len(walked.list) :
                      ~Beneath(JoinPath(local_path, walked.list[i]), d)
                /\ \A i \in 1..Len(walked.visited) :
                      ~Beneath(walked.visited[i], d)
    /\ LastCall("list_files_in_repository") =>
          LET walked == WalkRepository(disk)
          IN  /\ last.executed => last.out.val.files = walked.list
              /\ \A d \in HiddenDirs :
                    /\ \A i \in 1..Len(last.out.val.files) :
                          ~Beneath(JoinPath(local_path,
                                            last.out.val.files[i]), d)
                    /\ \A i \in 1..Len(walked.visited) :
                          ~Beneath(walked.visited[i], d)

\* C10 witness: the listing ran while files exist in a hidden directory
\* and in a plain directory beneath it.
C10_Witness ==
    /\ LastCall("list_files_in_repository")
    /\ last.executed
    /\ last.out.val.files # <<>>
    /\ disk[<<N_repo, N_git, N_cfg>>].exists
    /\ disk[<<N_repo, N_git, N_hooks, N_pre>>].exists
    /\ <<N_repo, N_git>> \in HiddenDirs
    /\ Beneath(<<N_repo, N_git, N_hooks>>, <<N_repo, N_git>>)

\* C11: no path returned by list_files_in_repository has a first path
\* segment that starts with ".", be it a dot-named directory at the root
\* or a dot-named file that sits directly in the root.
C11_NoDotFirstSegment ==
    (LastCall("list_files_in_repository") /\ ~last.out.raised) =>
        \A i \in 1..Len(last.out.val.files) :
            ~StartsWithDot(ParsePath(last.out.val.files[i]).parts[1])

\* C12: when the budget of 10 iterations is exhausted and the last
\* response still requested tool calls, query_repo_for_information returns
\* None or an empty value, which tells the exhaustion from an answer; when
\* the loop ends on a response without tool calls, it returns the content
\* of that response.
C12_ExhaustionReturnsEmpty ==
    pc = "done" =>
        IF response.tool_calls # <<>>
        THEN loops = MaxLoops /\ Falsy(result)
        ELSE result = response.content

(***************************************************************************)
(* Properties of the session: the server, the front ends, the history      *)
(***************************************************************************)

\* The server is running whenever a capability is invoked, is off only
\* before the with block is entered and is stopped once the session ended.
C13_Scoped ==
    /\ (last.kind \in {"listing", "dispatch"} => last.server = "running")
    /\ (server = "off" <=> pc = "start")
    /\ (Finished => server = "stopped")
    /\ (server = "stopped" => Finished)

\* The server changes state only by being started from off or stopped
\* from running.
C13_Step ==
    server' # server =>
        \/ server = "off" /\ server' = "running"
        \/ server = "running" /\ server' = "stopped"

\* C13: the symbol service is started once per session, before the first
\* capability is invoked, and is stopped on every exit path of the
\* session: normal return, budget exhaustion and an exception raised in
\* the loop (by the chat service included); no capability is invoked
\* before the start or after the stop.
C13_SymbolServiceScoped ==
    []C13_Scoped /\ [][C13_Step]_vars

\* C13 witness: the chat service raised after tool calls were dispatched
\* and the server is stopped.
C13_Witness ==
    /\ pc = "raised"
    /\ last.kind = "chat_raised"
    /\ server = "stopped"
    /\ loops > 0
    /\ Len(messages) > 3

\* C14: no error reaches the front end as an unhandled fault: whatever the
\* chat service, the symbol service and the filesystem do (failing calls
\* and a final response without text content included), the HTTP handler
\* and the command get a value back from query_repo_for_information and
\* produce an answer.
C14_FrontEndAlwaysAnswers ==
    answer # Unset =>
        /\ pc = "done"
        /\ ~answer.raised

\* a is a prefix of b.
IsPrefix(a, b) ==
    /\ Len(a) <= Len(b)
    /\ SubSeq(b, 1, Len(a)) = a

\* The history begins with the system prompt, the file listing and the
\* question; the for loop is at the call after the one it dispatched
\* last, which is the call the response lists there; a call that
\* returned a serializable value put one tool message holding the
\* serialized value at the end of the history.
C16_Ordered ==
    /\ pc \notin {"start", "seed", "registry", "sessions"} =>
          /\ Len(messages) >= 3
          /\ <<messages[1].role, messages[2].role, messages[3].role>>
                = <<"system", "assistant", "user">>
          /\ messages[2].content.read = WalkRepository(disk).list
          /\ messages[3].content = Question
          /\ IsPrefix(sent, messages)
    /\ last.kind = "dispatch" =>
          /\ idx = last.at + 1
          /\ response.tool_calls[last.at] = Req(last.name, last.arguments)
          /\ ~DispatchFailed =>
                /\ Len(messages) = last.before + 1
                /\ messages[Len(messages)] =
                      Message("tool", [t |-> "json", of |-> last.out.val])

\* A step takes nothing from the history and, once the history is seeded,
\* adds at most one message at its end; a step dispatches at most one tool call, the next of the
\* response; a chat call is given a history that the history of the chat
\* call before it is a prefix of.
C16_Step ==
    /\ IsPrefix(messages, messages')
    /\ pc # "seed" => Len(messages') <= Len(messages) + 1
    /\ (pc = "tools" /\ idx' # idx) => idx' = idx + 1
    /\ chat_calls' # chat_calls =>
          /\ sent' = messages
          /\ IsPrefix(sent, sent')

\* C16: the message history is append-only and ordered: it starts as
\* system instruction, assistant file listing, user question; the tool
\* calls of a response are dispatched one at a time in the order the
\* model returned them; each successful call appends exactly one tool
\* message holding its serialized result, in that order; and the history
\* sent to each chat call has the history of every earlier chat call as a
\* prefix.
C16_HistoryAppendOnly ==
    []C16_Ordered /\ [][C16_Step]_vars

\* C16 witness: in a later round the last call of a batch, after calls
\* that failed and calls that succeeded, appended its tool message.
C16_Witness ==
    /\ last.kind = "dispatch"
    /\ ~DispatchFailed
    /\ last.at = Len(BatchMixed)
    /\ chat_calls >= 2
    /\ Len(sent) > 3
    /\ Len(messages) > Len(sent) + 1

\* The session did not raise: the chat service is called at most 10
\* times; the counter equals the number of chat calls whenever the loop
\* test is evaluated and at return, the call of the round in progress
\* being counted at the end of the round; a session that returned made at
\* least one call and returned the content of the response received last.
C18_Counted ==
    pc # "raised" =>
        /\ chat_calls <= MaxLoops
        /\ pc \in {"loop", "done"} => loops = chat_calls
        /\ pc = "tools" => loops + 1 = chat_calls
        /\ pc = "done" =>
              /\ chat_calls >= 1
              /\ response.bound
              /\ result = response.content

\* The chat service is called only at the start or after a response that
\* requested tool calls.
C18_Step ==
    chat_calls' # chat_calls =>
        /\ chat_calls' = chat_calls + 1
        /\ chat_calls = 0 \/ response.tool_calls # <<>>

Answered(file_list, lsp) ==
    SelectSeq(file_list, LAMBDA f : f \notin lsp.fails)

\* C15: request_repository_symbols never raises when the symbol service
\* fails for some files: a failing file is skipped, the aggregation goes
\* on with the listed files that remain, and every returned symbol
\* carries the file_path of the file it came from.
C15_FailingFilesSkipped ==
    (LastCall("request_repository_symbols") /\ last.executed) =>
        /\ ~last.out.raised
        /\ LET symbols == last.out.val.symbols
               answered == Answered(WalkRepository(disk).list, last.lsp)
           IN  /\ Len(symbols) = Len(answered)
               /\ \A i \in 1..Len(symbols) :
                     /\ symbols[i].file_path = answered[i]
                     /\ symbols[i].uri = symbols[i].file_path

\* C15 witness: the server failed for a listed file that is neither the
\* first nor the last of the listing, and symbols were returned.
C15_Witness ==
    /\ LastCall("request_repository_symbols")
    /\ last.executed
    /\ ~last.out.raised
    /\ LET file_list == WalkRepository(disk).list
       IN  \E i \in 2..(Len(file_list) - 1) : file_list[i] \in last.lsp.fails
    /\ Len(last.out.val.symbols) >= 2

(***************************************************************************)
(* Properties of sessions that run at the same time                        *)
(***************************************************************************)

\* The last step was a tool call of a session that its cache answered:
\* the body of the function did not run and a value came back.
CacheHit ==
    /\ last.kind \in {"begin", "turn"}
    /\ ~last.executed
    /\ ~last.out.raised

\* The calls session s ran the function body for, with what they returned.
RanIn(s, name, arguments) ==
    {f \in firsts : /\ f.session = s
                    /\ f.name = name
                    /\ f.arguments = arguments}

\* What a cache answers a session with is what a call of that session
\* returned, and every entry of the cache a session uses was stored by a
\* call of that session.
C17_OwnCache ==
    /\ CacheHit =>
          \E f \in RanIn(last.session, last.name, last.arguments) :
              f.out = last.out
    /\ \A s \in Sessions : \A e \in caches[RegistryOf(s)] :
          \E f \in RanIn(s, e.name, e.arguments) : f.out.val = e.val

\* The history and the loop counter of a session change only in a step
\* of that session.
C17_Step ==
    \A s \in Sessions :
        sess'[s] # sess[s] =>
            /\ last'.kind \in {"begin", "turn", "answer"}
            /\ last'.session = s

\* C17: two sessions that run at the same time share no capability
\* registry and no cache entry: a result cached by a tool call of one
\* session is never returned to a tool call of the other, and the message
\* history and the loop counter of a session are changed only by that
\* session.
C17_SessionsShareNothing ==
    []C17_OwnCache /\ [][C17_Step]_vars

\* C17 witness: a session ran a capability that the other session holds a
\* cached result for, made with the same arguments before the repository
\* changed, and got the new result.
C17_Witness ==
    /\ last.kind = "turn"
    /\ last.executed
    /\ ~last.out.raised
    /\ nchanges > 0
    /\ \E s \in Sessions \ {last.session} :
          \E e \in caches[RegistryOf(s)] :
              /\ e.name = last.name
              /\ e.arguments = last.arguments
              /\ e.val # last.out.val

(***************************************************************************)
(* Properties of the cache                                                 *)
(***************************************************************************)

\* The entries of the cache for find_string_in_file on a listed file.
CachedSearches(pattern) ==
    {e \in memo : /\ e.name = "find_string_in_file"
                  /\ e.arguments.string_pattern = pattern
                  /\ \E i \in 1..Len(WalkRepository(disk).list) :
                        WalkRepository(disk).list[i] = e.arguments.file_path.s}

\* C19: capabilities built on other capabilities agree with the cache of
\* the session: once find_string_in_file(f, s) or
\* list_files_in_repository() returned a result in a session, every later
\* find_string_in_repository(s) and request_references(f, s) of the
\* session is computed from that cached result and not from a fresh read
\* of the repository, even if the repository changed in between.
C19_CompositesUseCache ==
    /\ (LastCall("request_references") /\ last.executed /\ ~last.out.raised) =>
          \A e \in memo :
             ( /\ e.name = "find_string_in_file"
               /\ e.arguments.file_path = last.arguments.file_path
               /\ e.arguments.string_pattern = last.arguments.code )
             => /\ Len(last.out.val.refs) = Len(e.val.locs)
                /\ \A i \in 1..Len(e.val.locs) :
                      /\ last.out.val.refs[i].row = e.val.locs[i].row
                      /\ last.out.val.refs[i].column = e.val.locs[i].column
    /\ (LastCall("find_string_in_repository") /\ last.executed
            /\ ~last.out.raised) =>
          /\ \A e \in CachedSearches(last.arguments.string_pattern) :
                SelectSeq(last.out.val.locs,
                          LAMBDA l : l.file_path = e.arguments.file_path.s)
                    = e.val.locs
          /\ \A e \in memo :
                e.name = "list_files_in_repository" =>
                    \A i \in 1..Len(last.out.val.locs) :
                        \E k \in 1..Len(e.val.files) :
                            e.val.files[k] = last.out.val.locs[i].file_path

\* The last step called a capability by its name with hashable arguments
\* of an earlier call that raised.
RepeatedAfterFailure ==
    /\ last.kind = "call"
    /\ last.name \in ToolNames
    /\ Hashable(last.arguments)
    /\ last.seen
    /\ last.first.raised

\* A capability called again after its first call raised is executed
\* again, unless a call in between returned and was cached.
C20_ExecutesAgain ==
    RepeatedAfterFailure =>
        \/ last.executed
        \/ ncalls > 2 /\ ~last.out.raised

\* A call that raised leaves the cache as it was; a call whose function
\* ran and returned adds its value and nothing else; the function runs
\* when the cache holds nothing for the arguments.
C20_Step ==
    (ncalls' # ncalls /\ last'.name \in ToolNames
        /\ Hashable(last'.arguments)) =>
        /\ last'.out.raised => memo' = memo
        /\ (last'.executed /\ ~last'.out.raised) =>
              memo' = memo \cup {[name |-> last'.name,
                                  arguments |-> last'.arguments,
                                  val |-> last'.out.val]}
        /\ ~last'.executed => memo' = memo
        /\ last'.executed <=>
              {e \in memo : /\ e.name = last'.name
                            /\ e.arguments = last'.arguments} = {}

\* C20: only successful results enter the memoization cache: a capability
\* invocation that raised leaves the cache unchanged, so a repeated
\* invocation with identical arguments executes the capability again and
\* can return a result once the cause of the failure is gone.
C20_OnlyResultsCached ==
    []C20_ExecutesAgain /\ [][C20_Step]_vars

\* C20 witness: a call raised, the cause went away, and the same call
\* ran again and returned a result, which is now cached.
C20_Witness ==
    /\ RepeatedAfterFailure
    /\ last.executed
    /\ ~last.out.raised
    /\ nchanges > 0
    /\ \E e \in memo : /\ e.name = last.name
                       /\ e.arguments = last.arguments
                       /\ e.val = last.out.val

====
